---------------------------- MODULE Spec2Model ----------------------------
(***************************************************************************)
(* Conversion between the v1alpha1 Tenant (legacy schema, receiver t) and  *)
(* the v1beta1 Tenant (hub schema) of capsule:                             *)
(*   api/v1alpha1/conversion_hub.go                                        *)
(*                                                                         *)
(* A Go string is a sequence of tokens.  A token is either the comma or a  *)
(* comma-free word, so "alice,bob" is <<"alice", ",", "bob">> and the      *)
(* empty string is <<>>.  strings.Split and strings.Join work on these     *)
(* sequences.  A nil pointer / absent value is <<>> and a present value v  *)
(* is <<v>>.  A Go map is a function whose DOMAIN is the set of its keys;  *)
(* the annotation maps live in a heap because Go maps are references that  *)
(* a struct copy (dst.ObjectMeta = t.ObjectMeta) shares.                   *)
(***************************************************************************)
EXTENDS Naturals, Sequences, FiniteSets

VARIABLES
    alpha,      \* the v1alpha1 Tenant: source of ConvertTo, receiver of ConvertFrom
    beta,       \* the v1beta1 Tenant: destination of ConvertTo, source of ConvertFrom
    heap,       \* annotation maps by reference (1..Len(heap)); reference 0 is the nil map
    heapPre,    \* the heap as it was when the last conversion was entered
    heap0,      \* the heap as it was when the run started
    orig,       \* the instance the run started from (for round trips)
    mode,       \* "up-down": the run starts from a legacy instance; "down-up": from a hub one
    step,       \* number of conversions performed so far
    last,       \* the last conversion called: "none", "ConvertTo", "ConvertFrom"
    outcome,    \* how it ended: "none", "ok", "error", "panic"
    err         \* the error ConvertTo returned (<<>> when none)

vars == <<alpha, beta, heap, heapPre, heap0, orig, mode, step, last, outcome, err>>

----------------------------------------------------------------------------
(* Annotation keys                                                          *)

resourceQuotaScopeAnnotation == "capsule.clastix.io/resource-quota-scope"
podAllowedImagePullPolicyAnnotation == "capsule.clastix.io/allowed-image-pull-policy"
podPriorityAllowedAnnotation == "priorityclass.capsule.clastix.io/allowed"
podPriorityAllowedRegexAnnotation == "priorityclass.capsule.clastix.io/allowed-regex"
enableNodePortsAnnotation == "capsule.clastix.io/enable-node-ports"
enableExternalNameAnnotation == "capsule.clastix.io/enable-external-name"
ownerGroupsAnnotation == "owners.capsule.clastix.io/group"
ownerUsersAnnotation == "owners.capsule.clastix.io/user"
ownerServiceAccountAnnotation == "owners.capsule.clastix.io/serviceaccount"
enableNodeListingAnnotation == "capsule.clastix.io/enable-node-listing"
enableNodeUpdateAnnotation == "capsule.clastix.io/enable-node-update"
enableNodeDeletionAnnotation == "capsule.clastix.io/enable-node-deletion"
enableStorageClassListingAnnotation == "capsule.clastix.io/enable-storageclass-listing"
enableStorageClassUpdateAnnotation == "capsule.clastix.io/enable-storageclass-update"
enableStorageClassDeletionAnnotation == "capsule.clastix.io/enable-storageclass-deletion"
enableIngressClassListingAnnotation == "capsule.clastix.io/enable-ingressclass-listing"
enableIngressClassUpdateAnnotation == "capsule.clastix.io/enable-ingressclass-update"
enableIngressClassDeletionAnnotation == "capsule.clastix.io/enable-ingressclass-deletion"
enablePriorityClassListingAnnotation == "capsule.clastix.io/enable-priorityclass-listing"
enablePriorityClassUpdateAnnotation == "capsule.clastix.io/enable-priorityclass-update"
enablePriorityClassDeletionAnnotation == "capsule.clastix.io/enable-priorityclass-deletion"

(* capsulev1beta1 enumerations used by the conversion *)
ProxyServiceKinds == {"Nodes", "StorageClasses", "IngressClasses", "PriorityClasses"}
ProxyOperations == {"List", "Update", "Delete"}
OwnerKinds == {"User", "Group", "ServiceAccount"}
ResourceQuotaScopeNamespace == "Namespace"
ResourceQuotaScopeTenant == "Tenant"

(* serviceKindToAnnotationMap: the three annotations of a service kind, in *)
(* the order of the Go slice literal.                                      *)
serviceKindToAnnotationMap ==
    [sk \in ProxyServiceKinds |->
        CASE sk = "Nodes" ->
               <<enableNodeListingAnnotation, enableNodeUpdateAnnotation, enableNodeDeletionAnnotation>>
          [] sk = "StorageClasses" ->
               <<enableStorageClassListingAnnotation, enableStorageClassUpdateAnnotation,
                 enableStorageClassDeletionAnnotation>>
          [] sk = "IngressClasses" ->
               <<enableIngressClassListingAnnotation, enableIngressClassUpdateAnnotation,
                 enableIngressClassDeletionAnnotation>>
          [] sk = "PriorityClasses" ->
               <<enablePriorityClassListingAnnotation, enablePriorityClassUpdateAnnotation,
                 enablePriorityClassDeletionAnnotation>>]

ProxyAnnotationKeys ==
    {serviceKindToAnnotationMap[sk][i] : sk \in ProxyServiceKinds, i \in 1..3}

annotationToOperationMap ==
    [a \in ProxyAnnotationKeys |->
        IF a \in {enableNodeListingAnnotation, enableStorageClassListingAnnotation,
                  enableIngressClassListingAnnotation, enablePriorityClassListingAnnotation}
        THEN "List"
        ELSE IF a \in {enableNodeUpdateAnnotation, enableStorageClassUpdateAnnotation,
                       enableIngressClassUpdateAnnotation, enablePriorityClassUpdateAnnotation}
        THEN "Update"
        ELSE "Delete"]

OwnerAnnotationKeys ==
    {ownerUsersAnnotation, ownerGroupsAnnotation, ownerServiceAccountAnnotation}

annotationToOwnerKindMap ==
    [a \in OwnerAnnotationKeys |->
        IF a = ownerUsersAnnotation THEN "User"
        ELSE IF a = ownerGroupsAnnotation THEN "Group"
        ELSE "ServiceAccount"]

----------------------------------------------------------------------------
(* Strings, optional values and maps                                        *)

Comma == ","
Nil == <<>>
Some(v) == <<v>>
EmptyMap == [k \in {} |-> <<>>]

Put(m, k, v) == [x \in DOMAIN m \cup {k} |-> IF x = k THEN v ELSE m[x]]
Delete(m, k) == [x \in DOMAIN m \ {k} |-> m[x]]

(* strings.Split(s, ","): never empty; Split("") is one empty string *)
RECURSIVE Split(_)
Split(s) ==
    IF \A i \in 1..Len(s) : s[i] # Comma
    THEN <<s>>
    ELSE LET i == CHOOSE j \in 1..Len(s) :
                    s[j] = Comma /\ \A k \in 1..(j - 1) : s[k] # Comma
         IN  <<SubSeq(s, 1, i - 1)>> \o Split(SubSeq(s, i + 1, Len(s)))

(* strings.Join(v, ",") *)
RECURSIVE Join(_)
Join(v) ==
    IF v = <<>> THEN <<>>
    ELSE IF Len(v) = 1 THEN v[1]
    ELSE v[1] \o <<Comma>> \o Join(Tail(v))

(* faulty variant: a value that is no boolean literal is read as false *)
ParseBoolLenient(s) ==
    IF s \in {<<"1">>, <<"t">>, <<"T">>, <<"TRUE">>, <<"true">>, <<"True">>}
    THEN [ok |-> TRUE, val |-> TRUE]
    ELSE [ok |-> TRUE, val |-> FALSE]

(* strconv.ParseBool: the accepted spellings, anything else is an error *)
ParseBool(s) ==
    IF s \in {<<"1">>, <<"t">>, <<"T">>, <<"TRUE">>, <<"true">>, <<"True">>}
    THEN [ok |-> TRUE, val |-> TRUE]
    ELSE IF s \in {<<"0">>, <<"f">>, <<"F">>, <<"FALSE">>, <<"false">>, <<"False">>}
    THEN [ok |-> TRUE, val |-> FALSE]
    ELSE [ok |-> FALSE, val |-> FALSE]

(* strconv.FormatBool *)
FormatBool(b) == IF b THEN <<"true">> ELSE <<"false">>

Count(seq, x) == Cardinality({i \in 1..Len(seq) : seq[i] = x})
Range(seq) == {seq[i] : i \in 1..Len(seq)}

(* t.GetAnnotations(): reading a nil map yields no key *)
GetAnnotations(obj, h) == IF obj.annRef = 0 THEN EmptyMap ELSE h[obj.annRef]

----------------------------------------------------------------------------
(* Upgrade: v1alpha1 -> v1beta1                                             *)

(* Every order in which a Go "range" may visit the keys of a map *)
RECURSIVE Orderings(_)
Orderings(S) ==
    IF S = {} THEN {<<>>}
    ELSE UNION {{<<k>> \o r : r \in Orderings(S \ {k})} : k \in S}

(* operations[owner][serviceKind] after the loop of lines 78-90: one       *)
(* operation appended per occurrence of owner in the split value, the      *)
(* annotations of a service kind visited in the order of their slice.      *)
OperationsOf(annotations, owner, sk) ==
    LET one(i) ==
            LET a == serviceKindToAnnotationMap[sk][i]
            IN  IF a \in DOMAIN annotations
                THEN [j \in 1..Count(Split(annotations[a]), owner) |->
                         annotationToOperationMap[a]]
                ELSE <<>>
    IN  one(1) \o one(2) \o one(3)

(* the keys of operations[owner]; the empty set when owner has no entry *)
OperationKinds(annotations, owner) ==
    {sk \in ProxyServiceKinds : OperationsOf(annotations, owner, sk) # <<>>}

(* getProxySettingsForOwner: one ProxySettings per service kind of the     *)
(* owner, in whatever order the range over ownerOperations visits them.    *)
getProxySettingsForOwner(annotations, ownerName) ==
    {[i \in 1..Len(o) |->
         [Kind |-> o[i], Operations |-> OperationsOf(annotations, ownerName, o[i])]]
       : o \in Orderings(OperationKinds(annotations, ownerName))}

(* the owners appended by lines 113-124 when the range over                *)
(* annotationToOwnerKindMap visits the keys in keyOrder, without settings  *)
RECURSIVE AnnotatedOwners(_, _)
AnnotatedOwners(annotations, keyOrder) ==
    IF keyOrder = <<>> THEN <<>>
    ELSE LET a == Head(keyOrder)
             here == IF a \in DOMAIN annotations
                     THEN LET names == Split(annotations[a])
                          IN  [i \in 1..Len(names) |->
                                  [Kind |-> annotationToOwnerKindMap[a], Name |-> names[i]]]
                     ELSE <<>>
         IN  here \o AnnotatedOwners(annotations, Tail(keyOrder))

(* every way of attaching getProxySettingsForOwner to a list of owners *)
RECURSIVE WithProxySettings(_, _)
WithProxySettings(annotations, owners) ==
    IF owners = <<>> THEN {<<>>}
    ELSE {<<[Kind |-> Head(owners).Kind, Name |-> Head(owners).Name, ProxyOperations |-> s]>> \o rest
            : s \in getProxySettingsForOwner(annotations, Head(owners).Name),
              rest \in WithProxySettings(annotations, Tail(owners))}

(* faulty variant: the primary owner is appended after the annotated owners *)
convertV1Alpha1OwnerToV1Beta1PrimaryLast(t, annotations) ==
    UNION {WithProxySettings(annotations,
              AnnotatedOwners(annotations, keyOrder)
                  \o <<[Kind |-> t.Owner.Kind, Name |-> t.Owner.Name]>>)
           : keyOrder \in Orderings(OwnerAnnotationKeys)}

(* convertV1Alpha1OwnerToV1Beta1: the owner lists the call may return.     *)
(* The primary owner comes first, then the annotated owners.               *)
convertV1Alpha1OwnerToV1Beta1(t, annotations) ==
    UNION {WithProxySettings(annotations,
              <<[Kind |-> t.Owner.Kind, Name |-> t.Owner.Name]>>
                  \o AnnotatedOwners(annotations, keyOrder))
           : keyOrder \in Orderings(OwnerAnnotationKeys)}

(* string(scope) and the scope switch of lines 194-204 *)
ScopeString(scope) == IF scope = "" THEN <<>> ELSE <<scope>>

(* faulty variant: any value of the annotation other than "Tenant" selects Namespace *)
ResourceQuotaScopeOfPresent(annotations) ==
    IF resourceQuotaScopeAnnotation \in DOMAIN annotations
    THEN IF annotations[resourceQuotaScopeAnnotation] = <<ResourceQuotaScopeTenant>>
         THEN ResourceQuotaScopeTenant
         ELSE ResourceQuotaScopeNamespace
    ELSE ResourceQuotaScopeTenant

ResourceQuotaScopeOf(annotations) ==
    IF resourceQuotaScopeAnnotation \in DOMAIN annotations
    THEN LET v == annotations[resourceQuotaScopeAnnotation]
         IN  IF v = ScopeString(ResourceQuotaScopeNamespace) THEN ResourceQuotaScopeNamespace
             ELSE IF v = ScopeString(ResourceQuotaScopeTenant) THEN ResourceQuotaScopeTenant
             ELSE ResourceQuotaScopeTenant
    ELSE ResourceQuotaScopeTenant

(* copy of an allow-list into a newly allocated AllowedListSpec *)
CopyAllowedList(cur, src) ==
    IF src # Nil THEN Some([Exact |-> src[1].Exact, Regex |-> src[1].Regex]) ELSE cur

CopyMetadata(cur, src) ==
    IF src # Nil
    THEN Some([AdditionalLabels |-> src[1].AdditionalLabels,
               AdditionalAnnotations |-> src[1].AdditionalAnnotations])
    ELSE cur

CopyRoleBindings(cur, src) ==
    cur \o [i \in 1..Len(src) |->
               [ClusterRoleName |-> src[i].ClusterRoleName, Subjects |-> src[i].Subjects]]

CopyExternalServiceIPs(cur, src) ==
    IF src # Nil
    THEN Some([Allowed |-> [i \in 1..Len(src[1].Allowed) |-> src[1].Allowed[i]]])
    ELSE cur

(* the keys ConvertTo removes from the destination, lines 285-305 *)
ConsumedKeys ==
    {podAllowedImagePullPolicyAnnotation, podPriorityAllowedAnnotation,
     podPriorityAllowedRegexAnnotation, enableNodePortsAnnotation,
     enableExternalNameAnnotation, ownerGroupsAnnotation, ownerUsersAnnotation,
     ownerServiceAccountAnnotation, enableNodeListingAnnotation,
     enableNodeUpdateAnnotation, enableNodeDeletionAnnotation,
     enableStorageClassListingAnnotation, enableStorageClassUpdateAnnotation,
     enableStorageClassDeletionAnnotation, enableIngressClassListingAnnotation,
     enableIngressClassUpdateAnnotation, enableIngressClassDeletionAnnotation,
     enablePriorityClassListingAnnotation, enablePriorityClassUpdateAnnotation,
     enablePriorityClassDeletionAnnotation, resourceQuotaScopeAnnotation}

(* faulty variant: the three owner annotations are not removed *)
PurgeKeysKeepOwners(m) ==
    [k \in DOMAIN m \ (ConsumedKeys \ {ownerGroupsAnnotation, ownerUsersAnnotation,
                                        ownerServiceAccountAnnotation}) |-> m[k]]

PurgeKeys(m) == [k \in DOMAIN m \ ConsumedKeys |-> m[k]]

(* the priority class allow-list of lines 233-246 *)
PriorityClassesOf(cur, annotations) ==
    LET exact == IF podPriorityAllowedAnnotation \in DOMAIN annotations
                 THEN Split(annotations[podPriorityAllowedAnnotation])
                 ELSE <<>>
        regex == IF podPriorityAllowedRegexAnnotation \in DOMAIN annotations
                 THEN annotations[podPriorityAllowedRegexAnnotation]
                 ELSE <<>>
        isZero == exact = <<>> /\ regex = <<>>
    IN  IF ~isZero THEN Some([Exact |-> exact, Regex |-> regex]) ELSE cur

ImagePullPoliciesOf(cur, annotations) ==
    IF podAllowedImagePullPolicyAnnotation \in DOMAIN annotations
    THEN cur \o Split(annotations[podAllowedImagePullPolicyAnnotation])
    ELSE cur

(* lines 254-260 / 269-275: allocate what is missing, then set one field *)
SetAllowedService(serviceOptions, field, val) ==
    LET so == IF serviceOptions = Nil
              THEN [AdditionalMetadata |-> Nil, AllowedServices |-> Nil]
              ELSE serviceOptions[1]
        as == IF so.AllowedServices = Nil
              THEN [NodePort |-> Nil, ExternalName |-> Nil]
              ELSE so.AllowedServices[1]
    IN  Some([so EXCEPT !.AllowedServices = Some([as EXCEPT ![field] = Some(val)])])

ParseError(t, key, raw) == Some([annotation |-> key, tenant |-> t.Name, value |-> raw])

(* the part of ConvertTo before the boolean annotations, lines 130-246 *)
ConvertToFields(t, dst, annotations, owners) ==
    [dst EXCEPT
        !.Name = t.Name,
        !.annRef = t.annRef,
        !.NamespaceQuota = t.NamespaceQuota,
        !.NodeSelector = t.NodeSelector,
        !.Owners = owners,
        !.NamespacesMetadata = CopyMetadata(dst.NamespacesMetadata, t.NamespacesMetadata),
        !.ServiceOptions =
            IF t.ServicesMetadata # Nil /\ dst.ServiceOptions = Nil
            THEN Some([AdditionalMetadata |-> CopyMetadata(Nil, t.ServicesMetadata),
                       AllowedServices |-> Nil])
            ELSE dst.ServiceOptions,
        !.StorageClasses = CopyAllowedList(dst.StorageClasses, t.StorageClasses),
        !.IngressClasses = CopyAllowedList(dst.IngressClasses, t.IngressClasses),
        !.IngressHostnames = CopyAllowedList(dst.IngressHostnames, t.IngressHostnames),
        !.ContainerRegistries = CopyAllowedList(dst.ContainerRegistries, t.ContainerRegistries),
        !.NetworkPolicies =
            IF Len(t.NetworkPolicies) > 0 THEN Some([Items |-> t.NetworkPolicies])
            ELSE dst.NetworkPolicies,
        !.LimitRanges =
            IF Len(t.LimitRanges) > 0 THEN Some([Items |-> t.LimitRanges])
            ELSE dst.LimitRanges,
        !.ResourceQuota =
            IF Len(t.ResourceQuota) > 0
            THEN Some([Scope |-> ResourceQuotaScopeOf(annotations), Items |-> t.ResourceQuota])
            ELSE dst.ResourceQuota,
        !.AdditionalRoleBindings =
            CopyRoleBindings(dst.AdditionalRoleBindings, t.AdditionalRoleBindings),
        !.ExternalServiceIPs = CopyExternalServiceIPs(dst.ExternalServiceIPs, t.ExternalServiceIPs),
        !.ImagePullPolicies = ImagePullPoliciesOf(dst.ImagePullPolicies, annotations),
        !.PriorityClasses = PriorityClassesOf(dst.PriorityClasses, annotations)]

(* faulty variant: the keys are removed before the boolean annotations are parsed *)
HeapOnErrorPurged(h, purged) == purged

(* the heap when ConvertTo returns an error: both early returns come      *)
(* before the deletes of lines 285-305, so nothing has been removed        *)
HeapOnError(h, purged) == h

(* ConvertTo, for one of the owner lists convertV1Alpha1OwnerToV1Beta1 may *)
(* return: the destination, the heap and the error as they are on return.  *)
ConvertToResult(t, dst, h, owners) ==
    LET annotations == GetAnnotations(t, h)
        d1 == ConvertToFields(t, dst, annotations, owners)
        hasNP == enableNodePortsAnnotation \in DOMAIN annotations
        np == IF hasNP THEN ParseBool(annotations[enableNodePortsAnnotation])
              ELSE [ok |-> TRUE, val |-> FALSE]
        d2 == IF hasNP /\ np.ok
              THEN [d1 EXCEPT !.ServiceOptions = SetAllowedService(d1.ServiceOptions, "NodePort", np.val)]
              ELSE d1
        hasEN == enableExternalNameAnnotation \in DOMAIN annotations
        en == IF hasEN THEN ParseBool(annotations[enableExternalNameAnnotation])
              ELSE [ok |-> TRUE, val |-> FALSE]
        d3 == IF hasEN /\ en.ok
              THEN [d2 EXCEPT !.ServiceOptions = SetAllowedService(d2.ServiceOptions, "ExternalName", en.val)]
              ELSE d2
        d4 == [d3 EXCEPT !.Status = [Size |-> t.Status.Size, Namespaces |-> t.Status.Namespaces]]
        purged == IF d1.annRef = 0 THEN h
                  ELSE [h EXCEPT ![d1.annRef] = PurgeKeys(h[d1.annRef])]
    IN  IF ~np.ok
        THEN [dst |-> d1, heap |-> HeapOnError(h, purged),
              err |-> ParseError(t, enableNodePortsAnnotation, annotations[enableNodePortsAnnotation])]
        ELSE IF ~en.ok
        THEN [dst |-> d2, heap |-> HeapOnError(h, purged),
              err |-> ParseError(t, enableExternalNameAnnotation, annotations[enableExternalNameAnnotation])]
        ELSE [dst |-> d4, heap |-> purged, err |-> Nil]

----------------------------------------------------------------------------
(* Downgrade: v1beta1 -> v1alpha1                                           *)

(* append on a map of slices: a missing key reads as the nil slice *)
AppendTo(m, k, x) == Put(m, k, (IF k \in DOMAIN m THEN m[k] ELSE <<>>) \o <<x>>)

(* the annotation the switches of lines 346-391 select; <<>> when no case  *)
(* matches                                                                 *)
ProxyAnnotationFor(kind, operation) ==
    CASE kind = "Nodes" /\ operation = "List" -> Some(enableNodeListingAnnotation)
      [] kind = "Nodes" /\ operation = "Update" -> Some(enableNodeUpdateAnnotation)
      [] kind = "Nodes" /\ operation = "Delete" -> Some(enableNodeDeletionAnnotation)
      [] kind = "PriorityClasses" /\ operation = "List" -> Some(enablePriorityClassListingAnnotation)
      [] kind = "PriorityClasses" /\ operation = "Update" -> Some(enablePriorityClassUpdateAnnotation)
      [] kind = "PriorityClasses" /\ operation = "Delete" -> Some(enablePriorityClassDeletionAnnotation)
      [] kind = "StorageClasses" /\ operation = "List" -> Some(enableStorageClassListingAnnotation)
      [] kind = "StorageClasses" /\ operation = "Update" -> Some(enableStorageClassUpdateAnnotation)
      [] kind = "StorageClasses" /\ operation = "Delete" -> Some(enableStorageClassDeletionAnnotation)
      [] kind = "IngressClasses" /\ operation = "List" -> Some(enableIngressClassListingAnnotation)
      [] kind = "IngressClasses" /\ operation = "Update" -> Some(enableIngressClassUpdateAnnotation)
      [] kind = "IngressClasses" /\ operation = "Delete" -> Some(enableIngressClassDeletionAnnotation)
      [] OTHER -> Nil

(* faulty variant: the User and Group cases write each other's annotation *)
OwnerAnnotationForSwapped(kind) ==
    CASE kind = "User" -> Some(ownerGroupsAnnotation)
      [] kind = "Group" -> Some(ownerUsersAnnotation)
      [] kind = "ServiceAccount" -> Some(ownerServiceAccountAnnotation)
      [] OTHER -> Nil

(* the annotation the switch of lines 336-343 selects *)
OwnerAnnotationFor(kind) ==
    CASE kind = "User" -> Some(ownerUsersAnnotation)
      [] kind = "Group" -> Some(ownerGroupsAnnotation)
      [] kind = "ServiceAccount" -> Some(ownerServiceAccountAnnotation)
      [] OTHER -> Nil

(* the loop over setting.Operations, lines 348-357 and its three copies *)
RECURSIVE OperationsLoop(_, _, _, _)
OperationsLoop(proxyAnnotations, name, kind, operations) ==
    IF operations = <<>> THEN proxyAnnotations
    ELSE LET a == ProxyAnnotationFor(kind, Head(operations))
             next == IF a = Nil THEN proxyAnnotations
                     ELSE AppendTo(proxyAnnotations, a[1], name)
         IN  OperationsLoop(next, name, kind, Tail(operations))

(* the loop over owner.ProxyOperations, lines 345-392 *)
RECURSIVE SettingsLoop(_, _, _)
SettingsLoop(proxyAnnotations, name, settings) ==
    IF settings = <<>> THEN proxyAnnotations
    ELSE SettingsLoop(
             OperationsLoop(proxyAnnotations, name, Head(settings).Kind, Head(settings).Operations),
             name, Tail(settings))

(* whether the owner at index i (from 1) is the primary owner: the i == 0  *)
(* of line 330                                                             *)
IsPrimaryIndex(i) == i = 1

(* the loop over src.Spec.Owners, lines 329-393; acc holds t.Spec.Owner    *)
(* and the two local maps                                                  *)
RECURSIVE OwnersLoop(_, _, _)
OwnersLoop(acc, owners, i) ==
    IF i > Len(owners) THEN acc
    ELSE LET owner == owners[i]
             a == OwnerAnnotationFor(owner.Kind)
             acc1 == IF IsPrimaryIndex(i)
                     THEN [acc EXCEPT !.Owner = [Name |-> owner.Name, Kind |-> owner.Kind]]
                     ELSE IF a = Nil THEN acc
                     ELSE [acc EXCEPT !.ownersAnnotations = AppendTo(@, a[1], owner.Name)]
             acc2 == [acc1 EXCEPT !.proxyAnnotations =
                                      SettingsLoop(@, owner.Name, owner.ProxyOperations)]
         IN  OwnersLoop(acc2, owners, i + 1)

(* lines 395-404: a key is written only when its slice is not empty *)
WriteJoined(annotations, lists) ==
    [k \in DOMAIN annotations \cup {x \in DOMAIN lists : Len(lists[x]) > 0} |->
        IF k \in DOMAIN lists /\ Len(lists[k]) > 0 THEN Join(lists[k]) ELSE annotations[k]]

(* convertV1Beta1OwnerToV1Alpha1: t.Spec.Owner and t.Annotations on return *)
convertV1Beta1OwnerToV1Alpha1(tOwner, annotations, src) ==
    LET acc == OwnersLoop(
                   [Owner |-> tOwner,
                    ownersAnnotations |->
                        [k \in {ownerGroupsAnnotation, ownerUsersAnnotation,
                                ownerServiceAccountAnnotation} |-> <<>>],
                    proxyAnnotations |->
                        [k \in {enableNodeListingAnnotation, enableNodeUpdateAnnotation,
                                enableNodeDeletionAnnotation, enableStorageClassListingAnnotation,
                                enableStorageClassUpdateAnnotation,
                                enableStorageClassDeletionAnnotation,
                                enableIngressClassListingAnnotation,
                                enableIngressClassUpdateAnnotation,
                                enableIngressClassDeletionAnnotation} |-> <<>>]],
                   src.Owners, 1)
    IN  [Owner |-> acc.Owner,
         annotations |-> WriteJoined(WriteJoined(annotations, acc.ownersAnnotations),
                                     acc.proxyAnnotations)]

(* faulty variant: the allowed-regex annotation is never written *)
WritePoliciesNoRegex(annotations, src) ==
    LET a1 == IF Len(src.ImagePullPolicies) # 0
              THEN Put(annotations, podAllowedImagePullPolicyAnnotation, Join(src.ImagePullPolicies))
              ELSE annotations
    IN  IF src.PriorityClasses # Nil /\ Len(src.PriorityClasses[1].Exact) # 0
        THEN Put(a1, podPriorityAllowedAnnotation, Join(src.PriorityClasses[1].Exact))
        ELSE a1

(* lines 486-501: the annotations written from the pull policies and the   *)
(* priority classes                                                        *)
WritePolicies(annotations, src) ==
    LET a1 == IF Len(src.ImagePullPolicies) # 0
              THEN Put(annotations, podAllowedImagePullPolicyAnnotation, Join(src.ImagePullPolicies))
              ELSE annotations
        a2 == IF src.PriorityClasses # Nil /\ Len(src.PriorityClasses[1].Exact) # 0
              THEN Put(a1, podPriorityAllowedAnnotation, Join(src.PriorityClasses[1].Exact))
              ELSE a1
    IN  IF src.PriorityClasses # Nil /\ src.PriorityClasses[1].Regex # <<>>
        THEN Put(a2, podPriorityAllowedRegexAnnotation, src.PriorityClasses[1].Regex)
        ELSE a2

(* ConvertFrom up to line 501: the receiver and its annotation map *)
ConvertFromFields(t, annotations, src) ==
    LET o == convertV1Beta1OwnerToV1Alpha1(t.Owner, annotations, src)
        a1 == IF src.ResourceQuota # Nil
              THEN Put(o.annotations, resourceQuotaScopeAnnotation,
                       ScopeString(src.ResourceQuota[1].Scope))
              ELSE o.annotations
    IN  [t |-> [t EXCEPT
                  !.Name = src.Name,
                  !.NamespaceQuota = src.NamespaceQuota,
                  !.NodeSelector = src.NodeSelector,
                  !.Owner = o.Owner,
                  !.NamespacesMetadata = CopyMetadata(t.NamespacesMetadata, src.NamespacesMetadata),
                  !.ServicesMetadata =
                      IF src.ServiceOptions # Nil
                      THEN CopyMetadata(t.ServicesMetadata, src.ServiceOptions[1].AdditionalMetadata)
                      ELSE t.ServicesMetadata,
                  !.StorageClasses = CopyAllowedList(t.StorageClasses, src.StorageClasses),
                  !.IngressClasses = CopyAllowedList(t.IngressClasses, src.IngressClasses),
                  !.IngressHostnames = CopyAllowedList(t.IngressHostnames, src.IngressHostnames),
                  !.ContainerRegistries = CopyAllowedList(t.ContainerRegistries, src.ContainerRegistries),
                  !.NetworkPolicies =
                      IF src.NetworkPolicies # Nil THEN src.NetworkPolicies[1].Items
                      ELSE t.NetworkPolicies,
                  !.LimitRanges =
                      IF src.LimitRanges # Nil THEN src.LimitRanges[1].Items ELSE t.LimitRanges,
                  !.ResourceQuota =
                      IF src.ResourceQuota # Nil THEN src.ResourceQuota[1].Items ELSE t.ResourceQuota,
                  !.AdditionalRoleBindings =
                      CopyRoleBindings(t.AdditionalRoleBindings, src.AdditionalRoleBindings),
                  !.ExternalServiceIPs =
                      CopyExternalServiceIPs(t.ExternalServiceIPs, src.ExternalServiceIPs)],
         annotations |-> WritePolicies(a1, src)]

(* lines 503-506: "ok" with both annotations written, or "panic" where a   *)
(* nil *bool is dereferenced (the first write is done when the second      *)
(* dereference panics)                                                     *)
WriteAllowedServices(annotations, src) ==
    IF src.ServiceOptions # Nil /\ src.ServiceOptions[1].AllowedServices # Nil
    THEN LET as == src.ServiceOptions[1].AllowedServices[1]
         IN  IF as.NodePort = Nil
             THEN [outcome |-> "panic", annotations |-> annotations]
             ELSE LET a1 == Put(annotations, enableNodePortsAnnotation, FormatBool(as.NodePort[1]))
                  IN  IF as.ExternalName = Nil
                      THEN [outcome |-> "panic", annotations |-> a1]
                      ELSE [outcome |-> "ok",
                            annotations |-> Put(a1, enableExternalNameAnnotation,
                                                FormatBool(as.ExternalName[1]))]
    ELSE [outcome |-> "ok", annotations |-> annotations]

(* the map t.Annotations refers to after lines 411-419: the source's own   *)
(* map (t.ObjectMeta = src.ObjectMeta copies the reference), or a new map  *)
(* when that is nil                                                        *)
ReceiverAnnRef(src, h) == IF src.annRef = 0 THEN Len(h) + 1 ELSE src.annRef

(* ConvertFrom: the receiver, the heap and the outcome on return or panic *)
ConvertFromResult(t, src, h) ==
    LET ref == ReceiverAnnRef(src, h)
        h0 == IF ref > Len(h) THEN Append(h, EmptyMap) ELSE h
        f == ConvertFromFields([t EXCEPT !.annRef = ref], h0[ref], src)
        w == WriteAllowedServices(f.annotations, src)
        t1 == IF w.outcome = "ok"
              THEN [f.t EXCEPT !.Status = [Size |-> src.Status.Size,
                                           Namespaces |-> src.Status.Namespaces]]
              ELSE f.t
    IN  [t |-> t1, heap |-> [h0 EXCEPT ![ref] = w.annotations], outcome |-> w.outcome]

----------------------------------------------------------------------------
(* The instances the conversions are run on                                 *)

(* the zero value of a v1alpha1 Tenant *)
FreshAlpha ==
    [Name |-> <<>>, annRef |-> 0, Owner |-> [Name |-> <<>>, Kind |-> ""],
     NamespaceQuota |-> Nil, NodeSelector |-> Nil, NamespacesMetadata |-> Nil,
     ServicesMetadata |-> Nil, StorageClasses |-> Nil, IngressClasses |-> Nil,
     IngressHostnames |-> Nil, ContainerRegistries |-> Nil, NetworkPolicies |-> <<>>,
     LimitRanges |-> <<>>, ResourceQuota |-> <<>>, AdditionalRoleBindings |-> <<>>,
     ExternalServiceIPs |-> Nil, Status |-> [Size |-> 0, Namespaces |-> <<>>]]

(* the zero value of a v1beta1 Tenant *)
FreshBeta ==
    [Name |-> <<>>, annRef |-> 0, Owners |-> <<>>,
     NamespaceQuota |-> Nil, NodeSelector |-> Nil, NamespacesMetadata |-> Nil,
     ServiceOptions |-> Nil, StorageClasses |-> Nil, IngressClasses |-> Nil,
     IngressHostnames |-> Nil, ContainerRegistries |-> Nil, PriorityClasses |-> Nil,
     NetworkPolicies |-> Nil, LimitRanges |-> Nil, ResourceQuota |-> Nil,
     AdditionalRoleBindings |-> <<>>, ExternalServiceIPs |-> Nil,
     ImagePullPolicies |-> <<>>, Status |-> [Size |-> 0, Namespaces |-> <<>>]]

(* Bounds *)
MaxVaried == 2      \* fields and annotations of an input that differ from the base instance
MaxOwners == 2      \* length of the owner list of a hub input of the owners family

alice == <<"alice">>
bob == <<"bob">>
Names == {alice, bob}
OwnerIds == [Kind : OwnerKinds, Name : Names]

md1 == Some([AdditionalLabels |-> "tier=gold", AdditionalAnnotations |-> "contact=ops"])
md2 == Some([AdditionalLabels |-> "app=svc", AdditionalAnnotations |-> "lb=internal"])
allow1 == Some([Exact |-> <<<<"fast">>, <<"slow">>>>, Regex |-> <<"^oil-.*">>])
allow0 == Some([Exact |-> <<>>, Regex |-> <<>>])
status1 == [Size |-> 1, Namespaces |-> <<"oil-dev">>]
rb1 == <<[ClusterRoleName |-> "crds-viewer", Subjects |-> "joe"]>>

(* the legacy instance the legacy inputs are variations of *)
BaseAlpha ==
    [FreshAlpha EXCEPT !.Name = <<"oil">>, !.Owner = [Name |-> alice, Kind |-> "User"]]

(* the hub instance the hub inputs are variations of *)
BaseBeta ==
    [FreshBeta EXCEPT !.Name = <<"oil">>,
                      !.Owners = <<[Kind |-> "User", Name |-> alice, ProxyOperations |-> <<>>]>>]

(* the values a field or an annotation of a legacy input may take instead  *)
(* of the base value (an annotation of the base instance is absent)        *)
AlphaChoices(slot) ==
    CASE slot = "Name" -> {<<"gas">>}
      [] slot = "annRef" -> {1}
      [] slot = "Owner" -> {[Name |-> o.Name, Kind |-> o.Kind] : o \in OwnerIds}
      [] slot = "ServicesMetadata" -> {md2}
      [] slot = "StorageClasses" -> {allow1}
      [] slot = "NetworkPolicies" -> {<<"np1">>}
      [] slot = "ResourceQuota" -> {<<"rq1", "rq2">>}
      [] slot = "Status" -> {status1}
      [] slot = enableNodeListingAnnotation ->
            {alice, bob, <<"alice", Comma, "bob">>, <<"bob", Comma, "bob">>, <<>>}
      [] slot \in ProxyAnnotationKeys \ {enableNodeListingAnnotation} ->
            {<<"alice", Comma, "bob">>}
      [] slot = ownerGroupsAnnotation -> {bob, <<"teamA", Comma, "teamB">>, <<>>}
      [] slot \in {ownerUsersAnnotation, ownerServiceAccountAnnotation} ->
            {bob, <<"alice", Comma, "bob">>}
      [] slot = podAllowedImagePullPolicyAnnotation -> {<<"Always", Comma, "IfNotPresent">>}
      [] slot = podPriorityAllowedAnnotation -> {<<"p1", Comma, "p2">>}
      [] slot = podPriorityAllowedRegexAnnotation -> {<<"^std-.*">>}
      [] slot = enableNodePortsAnnotation -> {<<"true">>, <<"1">>, <<"false">>, <<"maybe">>}
      [] slot = enableExternalNameAnnotation -> {<<"true">>, <<"0">>, <<"maybe">>}
      [] slot = resourceQuotaScopeAnnotation -> {<<"Namespace">>, <<"Tenant">>, <<"bogus">>}
      [] slot = "team" -> {<<"blue">>}

AlphaFieldSlots ==
    {"Name", "annRef", "Owner", "ServicesMetadata", "StorageClasses", "NetworkPolicies",
     "ResourceQuota", "Status"}
AlphaSlots == AlphaFieldSlots \cup ConsumedKeys \cup {"team"}

so(am, as) == Some([AdditionalMetadata |-> am, AllowedServices |-> as])
allowed(np, en) == Some([NodePort |-> np, ExternalName |-> en])

(* the same for a hub input *)
BetaChoices(slot) ==
    CASE slot = "Name" -> {<<"gas">>}
      [] slot = "annRef" -> {1}
      [] slot = "Owners" ->
            {<<>>,
             <<[Kind |-> "User", Name |-> alice,
                ProxyOperations |-> <<[Kind |-> "Nodes", Operations |-> <<"List", "Update">>]>>],
               [Kind |-> "Group", Name |-> <<"teamA">>,
                ProxyOperations |-> <<[Kind |-> "Nodes", Operations |-> <<"List">>]>>]>>,
             <<[Kind |-> "User", Name |-> alice,
                ProxyOperations |-> <<[Kind |-> "Nodes", Operations |-> <<"List", "Update", "Delete">>],
                                      [Kind |-> "StorageClasses", Operations |-> <<"Delete", "Update", "List">>]>>],
               [Kind |-> "ServiceAccount", Name |-> bob,
                ProxyOperations |-> <<[Kind |-> "IngressClasses", Operations |-> <<"List", "Update", "Delete">>],
                                      [Kind |-> "PriorityClasses", Operations |-> <<"Update", "List", "Delete">>]>>]>>,
             <<[Kind |-> "User", Name |-> alice,
                ProxyOperations |-> <<[Kind |-> "Nodes", Operations |-> <<"List", "Update">>]>>],
               [Kind |-> "Group", Name |-> <<"teamA">>,
                ProxyOperations |-> <<[Kind |-> "StorageClasses", Operations |-> <<"List">>]>>],
               [Kind |-> "ServiceAccount", Name |-> bob, ProxyOperations |-> <<>>]>>,
             <<[Kind |-> "User", Name |-> alice,
                ProxyOperations |-> <<[Kind |-> "Nodes", Operations |-> <<"List", "Update">>]>>],
               [Kind |-> "Group", Name |-> alice, ProxyOperations |-> <<>>],
               [Kind |-> "User", Name |-> bob,
                ProxyOperations |-> <<[Kind |-> "Nodes", Operations |-> <<"List">>]>>]>>,
             <<[Kind |-> "User", Name |-> alice, ProxyOperations |-> <<>>],
               [Kind |-> "Group", Name |-> bob,
                ProxyOperations |-> <<[Kind |-> "IngressClasses", Operations |-> <<"Delete">>]>>],
               [Kind |-> "User", Name |-> bob, ProxyOperations |-> <<>>]>>}
      [] slot = "NamespaceQuota" -> {Some(3)}
      [] slot = "NodeSelector" -> {Some("pool=oil")}
      [] slot = "NamespacesMetadata" -> {md1}
      [] slot = "ServiceOptions" ->
            {so(Nil, Nil), so(md2, Nil), so(Nil, allowed(Some(TRUE), Some(FALSE))),
             so(md2, allowed(Some(FALSE), Some(TRUE))), so(Nil, allowed(Nil, Nil)),
             so(Nil, allowed(Some(TRUE), Nil)), so(md2, allowed(Nil, Some(FALSE)))}
      [] slot = "StorageClasses" -> {allow1, allow0}
      [] slot \in {"IngressClasses", "IngressHostnames", "ContainerRegistries"} -> {allow1}
      [] slot = "PriorityClasses" ->
            {allow0,
             Some([Exact |-> <<<<"p1">>, <<"p2">>>>, Regex |-> <<>>]),
             Some([Exact |-> <<>>, Regex |-> <<"^std-.*">>]),
             Some([Exact |-> <<<<"p1">>>>, Regex |-> <<"^std-.*">>])}
      [] slot = "NetworkPolicies" -> {Some([Items |-> <<>>]), Some([Items |-> <<"np1">>])}
      [] slot = "LimitRanges" -> {Some([Items |-> <<>>]), Some([Items |-> <<"lr1">>])}
      [] slot = "ResourceQuota" ->
            {Some([Scope |-> ResourceQuotaScopeNamespace, Items |-> <<>>]),
             Some([Scope |-> ResourceQuotaScopeTenant, Items |-> <<"rq1">>]),
             Some([Scope |-> ResourceQuotaScopeNamespace, Items |-> <<"rq1", "rq2">>])}
      [] slot = "AdditionalRoleBindings" -> {rb1}
      [] slot = "ExternalServiceIPs" ->
            {Some([Allowed |-> <<>>]), Some([Allowed |-> <<"10.0.0.0/8">>])}
      [] slot = "ImagePullPolicies" -> {<<<<"Always">>>>, <<<<"Always">>, <<"Never">>>>}
      [] slot = "Status" -> {status1}
      [] slot = enableNodeListingAnnotation -> {bob}
      [] slot = enableStorageClassDeletionAnnotation -> {bob}
      [] slot = ownerGroupsAnnotation -> {bob}
      [] slot = enableNodePortsAnnotation -> {<<"maybe">>}
      [] slot = podAllowedImagePullPolicyAnnotation -> {<<"Never">>}
      [] slot = podPriorityAllowedAnnotation -> {<<"p9">>}
      [] slot = resourceQuotaScopeAnnotation -> {<<"Namespace">>}
      [] slot = "team" -> {<<"blue">>}

BetaFieldSlots == DOMAIN FreshBeta
BetaAnnotationSlots ==
    {enableNodeListingAnnotation, enableStorageClassDeletionAnnotation,
     ownerGroupsAnnotation, enableNodePortsAnnotation,
     podAllowedImagePullPolicyAnnotation, podPriorityAllowedAnnotation,
     resourceQuotaScopeAnnotation, "team"}

(* partial assignments of at most n slots *)
RECURSIVE Variations(_, _, _)
Variations(slots, Choices(_), n) ==
    IF n = 0 THEN {EmptyMap}
    ELSE LET prev == Variations(slots, Choices, n - 1)
         IN  prev \cup UNION {IF p[2] \in DOMAIN p[1] THEN {}
                              ELSE {Put(p[1], p[2], v) : v \in Choices(p[2])}
                                : p \in prev \X slots}

(* an instance and its heap from a base instance and a variation; an       *)
(* instance that carries annotations has a map, one that does not has the  *)
(* nil map unless the variation gives it an empty one                      *)
Varied(base, v) ==
    LET keys == DOMAIN v \ DOMAIN base
        obj == [f \in DOMAIN base |->
                   IF f = "annRef" THEN (IF keys # {} \/ "annRef" \in DOMAIN v THEN 1 ELSE 0)
                   ELSE IF f \in DOMAIN v THEN v[f] ELSE base[f]]
    IN  [obj |-> obj,
         heap |-> IF obj.annRef = 1 THEN <<[k \in keys |-> v[k]]>> ELSE <<>>]

(* the permission settings an owner of the owners family may carry *)
Profiles ==
    {<<>>,
     <<[Kind |-> "Nodes", Operations |-> <<"List", "Update">>]>>,
     <<[Kind |-> "PriorityClasses", Operations |-> <<"Delete", "List">>],
       [Kind |-> "Nodes", Operations |-> <<"List">>]>>}

OwnerSpecs == [Kind : OwnerKinds, Name : Names, ProxyOperations : Profiles]

OwnerLists == UNION {[1..n -> OwnerSpecs] : n \in 0..MaxOwners}

----------------------------------------------------------------------------
(* The state machine: one or two conversions on an input                    *)

Start(m, a, b, h) ==
    /\ mode = m
    /\ alpha = a
    /\ beta = b
    /\ heap = h
    /\ heapPre = h
    /\ heap0 = h
    /\ orig = IF m = "up-down" THEN a ELSE b
    /\ step = 0
    /\ last = "none"
    /\ outcome = "none"
    /\ err = Nil

InitLegacy ==
    \E v \in Variations(AlphaSlots, AlphaChoices, MaxVaried) :
        LET inp == Varied(BaseAlpha, v) IN Start("up-down", inp.obj, FreshBeta, inp.heap)

InitHub ==
    \E v \in Variations(BetaFieldSlots \cup BetaAnnotationSlots, BetaChoices, MaxVaried) :
        LET inp == Varied(BaseBeta, v) IN Start("down-up", FreshAlpha, inp.obj, inp.heap)

InitOwners ==
    \E owners \in OwnerLists :
        Start("down-up", FreshAlpha, [BaseBeta EXCEPT !.Owners = owners], <<>>)

Init == InitLegacy \/ InitHub \/ InitOwners

(* ConvertTo(dst): upgrade alpha into a zero-valued hub instance *)
ConvertTo ==
    /\ \/ mode = "up-down" /\ step = 0
       \/ mode = "down-up" /\ step = 1 /\ outcome = "ok"
    /\ \E owners \in convertV1Alpha1OwnerToV1Beta1(alpha, GetAnnotations(alpha, heap)) :
          LET r == ConvertToResult(alpha, FreshBeta, heap, owners)
          IN  /\ beta' = r.dst
              /\ heap' = r.heap
              /\ err' = r.err
              /\ outcome' = IF r.err = Nil THEN "ok" ELSE "error"
    /\ heapPre' = heap
    /\ step' = step + 1
    /\ last' = "ConvertTo"
    /\ UNCHANGED <<alpha, orig, mode, heap0>>

(* ConvertFrom(src): downgrade beta into a zero-valued legacy instance *)
ConvertFrom ==
    /\ \/ mode = "down-up" /\ step = 0
       \/ mode = "up-down" /\ step = 1 /\ outcome = "ok"
    /\ LET r == ConvertFromResult(FreshAlpha, beta, heap)
       IN  /\ alpha' = r.t
           /\ heap' = r.heap
           /\ outcome' = r.outcome
    /\ heapPre' = heap
    /\ step' = step + 1
    /\ last' = "ConvertFrom"
    /\ UNCHANGED <<beta, orig, mode, err, heap0>>

Next == ConvertTo \/ ConvertFrom

Spec == Init /\ [][Next]_vars

----------------------------------------------------------------------------
(* Properties                                                               *)

(* the annotations of the source when the last conversion was entered, and *)
(* those of an instance now                                                *)
AnnotationsBefore(obj) == GetAnnotations(obj, heapPre)
AnnotationsNow(obj) == GetAnnotations(obj, heap)

(* the 21 annotation keys of the legacy schema, from the key tables *)
LegacyKeys ==
    ProxyAnnotationKeys \cup OwnerAnnotationKeys \cup
    {podAllowedImagePullPolicyAnnotation, podPriorityAllowedAnnotation,
     podPriorityAllowedRegexAnnotation, enableNodePortsAnnotation,
     enableExternalNameAnnotation, resourceQuotaScopeAnnotation}

(* the (serviceKind, operation) pairs an owner of the hub schema holds *)
PermPairs(o) ==
    UNION {{<<o.ProxyOperations[i].Kind, op>> : op \in Range(o.ProxyOperations[i].Operations)}
             : i \in 1..Len(o.ProxyOperations)}

(* the run downgraded a hub instance and upgraded the result *)
RoundTripFromHub == mode = "down-up" /\ step = 2

DistinctNamesFrom(owners, first) ==
    \A i, j \in first..Len(owners) : i # j => owners[i].Name # owners[j].Name

(* every owner of orig at index >= 1 (2 here) is among the owners at       *)
(* index >= 1 of the result, with the pairs it had                         *)
TailPermissionsKept ==
    \A i \in 2..Len(orig.Owners) :
        LET o == orig.Owners[i]
            same(j) == beta.Owners[j].Kind = o.Kind /\ beta.Owners[j].Name = o.Name
        IN  /\ \E j \in 2..Len(beta.Owners) : same(j)
            /\ \A j \in 2..Len(beta.Owners) : same(j) => PermPairs(beta.Owners[j]) = PermPairs(o)

(* C1: when the owners at index >= 1 of a hub instance have               *)
(* pairwise-distinct names, downgrade followed by upgrade gives each of    *)
(* those owners exactly the (serviceKind, operation) pairs it had.         *)
C1_RoundTripTailDistinct ==
    (RoundTripFromHub /\ outcome = "ok" /\ DistinctNamesFrom(orig.Owners, 2))
        => TailPermissionsKept

(* the fields C2 compares *)
RoundTripFields ==
    {"NamespaceQuota", "NodeSelector", "NamespacesMetadata", "StorageClasses",
     "IngressClasses", "IngressHostnames", "ContainerRegistries", "PriorityClasses",
     "NetworkPolicies", "LimitRanges", "ResourceQuota", "AdditionalRoleBindings",
     "ExternalServiceIPs", "ImagePullPolicies", "ServiceOptions", "Status"}

NoLegacyKeys(obj) == DOMAIN GetAnnotations(obj, heap0) \cap LegacyKeys = {}

AllowedServicesComplete(obj) ==
    \/ obj.ServiceOptions = Nil
    \/ obj.ServiceOptions[1].AllowedServices = Nil
    \/ /\ obj.ServiceOptions[1].AllowedServices[1].NodePort # Nil
       /\ obj.ServiceOptions[1].AllowedServices[1].ExternalName # Nil

(* no optional wrapper of the instance is present but empty *)
NoEmptyWrapper(obj) ==
    /\ obj.PriorityClasses # Nil =>
           obj.PriorityClasses[1].Exact # <<>> \/ obj.PriorityClasses[1].Regex # <<>>
    /\ obj.NetworkPolicies # Nil => obj.NetworkPolicies[1].Items # <<>>
    /\ obj.LimitRanges # Nil => obj.LimitRanges[1].Items # <<>>
    /\ obj.ResourceQuota # Nil => obj.ResourceQuota[1].Items # <<>>
    /\ obj.ServiceOptions # Nil =>
           obj.ServiceOptions[1].AdditionalMetadata # Nil
               \/ obj.ServiceOptions[1].AllowedServices # Nil

FieldsKept == outcome = "ok" /\ \A f \in RoundTripFields : beta[f] = orig[f]

(* C2 as stated: for an instance without legacy keys in its metadata and   *)
(* with allowedServices absent or complete, upgrade(downgrade(C)) succeeds *)
(* and equals C on the listed fields.                                      *)
C2_RoundTripAnyInstance ==
    (RoundTripFromHub /\ NoLegacyKeys(orig) /\ AllowedServicesComplete(orig)) => FieldsKept

(* C2 amended: the same, for instances in which every optional wrapper     *)
(* that is present is not empty (priorityClasses has an exact entry or a   *)
(* regex; networkPolicies, limitRanges and resourceQuota have an item;     *)
(* serviceOptions has additionalMetadata or allowedServices).              *)
C2_FieldRoundTrip ==
    (RoundTripFromHub /\ NoLegacyKeys(orig) /\ AllowedServicesComplete(orig)
        /\ NoEmptyWrapper(orig)) => FieldsKept

(* C2 witness: a round trip that carries a Namespace-scoped resource quota *)
(* and both allowedServices booleans                                       *)
C2_Witness ==
    /\ RoundTripFromHub
    /\ outcome = "ok"
    /\ NoLegacyKeys(orig)
    /\ orig.ResourceQuota # Nil
    /\ orig.ResourceQuota[1].Scope = ResourceQuotaScopeNamespace
    /\ orig.ResourceQuota[1].Items # <<>>
    /\ orig.ServiceOptions # Nil
    /\ orig.ServiceOptions[1].AllowedServices # Nil
    /\ beta.ServiceOptions = orig.ServiceOptions
    /\ beta.ResourceQuota = orig.ResourceQuota

(* C3: downgrade never panics, whichever optional fields are unset. *)
C3_DowngradeNeverPanics == outcome # "panic"

(* the boolean literals strconv.ParseBool accepts *)
TrueLiterals == {<<"1">>, <<"t">>, <<"T">>, <<"TRUE">>, <<"true">>, <<"True">>}
FalseLiterals == {<<"0">>, <<"f">>, <<"F">>, <<"FALSE">>, <<"false">>, <<"False">>}

NotABoolean(annotations, key) ==
    key \in DOMAIN annotations /\ annotations[key] \notin TrueLiterals \cup FalseLiterals

AllowedServiceField(obj, field) ==
    IF obj.ServiceOptions = Nil \/ obj.ServiceOptions[1].AllowedServices = Nil THEN Nil
    ELSE obj.ServiceOptions[1].AllowedServices[1][field]

(* the field of the destination agrees with a boolean annotation that was  *)
(* parsed: true for a true literal, false for a false literal              *)
FieldFollows(annotations, key, field) ==
    /\ (key \in DOMAIN annotations /\ annotations[key] \in TrueLiterals)
           => AllowedServiceField(beta, field) = Some(TRUE)
    /\ (key \in DOMAIN annotations /\ annotations[key] \in FalseLiterals)
           => AllowedServiceField(beta, field) = Some(FALSE)

(* C4: upgrade fails exactly when one of the two boolean annotations is    *)
(* present with a value that is no boolean literal, the error names the    *)
(* tenant and the first such annotation (enable-node-ports before          *)
(* enable-external-name) with its value; an annotation holding a literal   *)
(* that is parsed sets its allowedServices field to that boolean, and an   *)
(* absent annotation neither fails nor sets its field.                     *)
C4_BooleanStrictness ==
    last = "ConvertTo" =>
        LET a == AnnotationsBefore(alpha)
            badNP == NotABoolean(a, enableNodePortsAnnotation)
            badEN == NotABoolean(a, enableExternalNameAnnotation)
        IN  /\ (outcome = "error") <=> (badNP \/ badEN)
            /\ badNP => err = Some([annotation |-> enableNodePortsAnnotation,
                                    tenant |-> alpha.Name,
                                    value |-> a[enableNodePortsAnnotation]])
            /\ (~badNP /\ badEN) => err = Some([annotation |-> enableExternalNameAnnotation,
                                                tenant |-> alpha.Name,
                                                value |-> a[enableExternalNameAnnotation]])
            /\ FieldFollows(a, enableNodePortsAnnotation, "NodePort")
            /\ ~badNP => FieldFollows(a, enableExternalNameAnnotation, "ExternalName")
            /\ enableNodePortsAnnotation \notin DOMAIN a => AllowedServiceField(beta, "NodePort") = Nil
            /\ enableExternalNameAnnotation \notin DOMAIN a
                   => AllowedServiceField(beta, "ExternalName") = Nil

(* C4 witness: enable-node-ports = "1" is parsed to true and               *)
(* enable-external-name = "maybe" makes the upgrade fail                   *)
C4_Witness ==
    /\ last = "ConvertTo"
    /\ outcome = "error"
    /\ enableNodePortsAnnotation \in DOMAIN AnnotationsBefore(alpha)
    /\ AnnotationsBefore(alpha)[enableNodePortsAnnotation] = <<"1">>
    /\ AllowedServiceField(beta, "NodePort") = Some(TRUE)
    /\ err[1].annotation = enableExternalNameAnnotation
    /\ err[1].value = <<"maybe">>

(* C5: when upgrade returns a parse error, the destination's annotations   *)
(* are the annotations the source had when upgrade was entered: no         *)
(* consumed key has been removed.                                          *)
C5_NoPurgeOnError ==
    (last = "ConvertTo" /\ outcome = "error")
        => /\ beta.annRef = alpha.annRef
           /\ AnnotationsNow(beta) = AnnotationsBefore(alpha)

(* C5 witness: a failed upgrade of an instance that carries an owner       *)
(* annotation beside the offending boolean annotation                     *)
C5_Witness ==
    /\ last = "ConvertTo"
    /\ outcome = "error"
    /\ DOMAIN AnnotationsNow(beta) \cap OwnerAnnotationKeys # {}
    /\ DOMAIN AnnotationsNow(beta) \cap {enableNodePortsAnnotation, enableExternalNameAnnotation} # {}

(* the owner kind each owner annotation stands for *)
KindOfOwnerKey(key) ==
    CASE key = ownerGroupsAnnotation -> "Group"
      [] key = ownerUsersAnnotation -> "User"
      [] key = ownerServiceAccountAnnotation -> "ServiceAccount"

(* C6: after a successful upgrade every name in the comma list of an owner *)
(* annotation is the name of an owner of the kind the key stands for, and  *)
(* the destination's metadata holds none of the 21 legacy keys.            *)
C6_AnnotationCleanup ==
    (last = "ConvertTo" /\ outcome = "ok")
        => /\ \A key \in OwnerAnnotationKeys \cap DOMAIN AnnotationsBefore(alpha) :
                 \A name \in Range(Split(AnnotationsBefore(alpha)[key])) :
                     \E i \in 1..Len(beta.Owners) :
                         /\ beta.Owners[i].Kind = KindOfOwnerKey(key)
                         /\ beta.Owners[i].Name = name
           /\ DOMAIN AnnotationsNow(beta) \cap LegacyKeys = {}

(* C6 witness: owners.../group = "teamA,teamB" was upgraded to the owners  *)
(* {Group, teamA} and {Group, teamB}                                       *)
C6_Witness ==
    /\ last = "ConvertTo"
    /\ outcome = "ok"
    /\ ownerGroupsAnnotation \in DOMAIN AnnotationsBefore(alpha)
    /\ AnnotationsBefore(alpha)[ownerGroupsAnnotation] = <<"teamA", Comma, "teamB">>
    /\ \E i, j \in 1..Len(beta.Owners) :
          /\ beta.Owners[i] = [Kind |-> "Group", Name |-> <<"teamA">>, ProxyOperations |-> <<>>]
          /\ beta.Owners[j] = [Kind |-> "Group", Name |-> <<"teamB">>, ProxyOperations |-> <<>>]
    /\ ownerGroupsAnnotation \notin DOMAIN AnnotationsNow(beta)

(* C7: a conversion leaves the annotations of its source as they were      *)
(* when it was entered: upgrade those of the legacy source, downgrade      *)
(* those of the hub source.                                                *)
C7_SourceAnnotationsUntouched ==
    /\ (last = "ConvertTo" /\ outcome = "ok") => AnnotationsNow(alpha) = AnnotationsBefore(alpha)
    /\ (last = "ConvertFrom" /\ outcome = "ok") => AnnotationsNow(beta) = AnnotationsBefore(beta)

(* the permission key of a (serviceKind, operation) pair, from the table   *)
(* the upgrade reads                                                       *)
KeyOfPair(sk, op) ==
    serviceKindToAnnotationMap[sk][CASE op = "List" -> 1 [] op = "Update" -> 2 [] op = "Delete" -> 3]

KeyOfOwnerKind(kind) ==
    CASE kind = "Group" -> ownerGroupsAnnotation
      [] kind = "User" -> ownerUsersAnnotation
      [] kind = "ServiceAccount" -> ownerServiceAccountAnnotation

(* the key holds, as a set, exactly these names when there are any; when   *)
(* there are none downgrade has not written the key                        *)
KeyHolds(key, names) ==
    IF names # {}
    THEN /\ key \in DOMAIN AnnotationsNow(alpha)
         /\ Range(Split(AnnotationsNow(alpha)[key])) = names
    ELSE /\ (key \in DOMAIN AnnotationsNow(alpha)) <=> (key \in DOMAIN AnnotationsBefore(beta))
         /\ key \in DOMAIN AnnotationsNow(alpha)
                => AnnotationsNow(alpha)[key] = AnnotationsBefore(beta)[key]

(* C8: downgrade sets primaryOwner to the kind and name of owners[0],      *)
(* writes into each owner annotation the names of the owners at index >= 1 *)
(* of its kind, and into each permission key the names of the owners, the  *)
(* primary owner included, that hold its pair (compared as sets).          *)
C8_DowngradeEncoding ==
    (last = "ConvertFrom" /\ outcome = "ok")
        => /\ Len(beta.Owners) > 0
                 => alpha.Owner = [Name |-> beta.Owners[1].Name, Kind |-> beta.Owners[1].Kind]
           /\ \A kind \in OwnerKinds :
                 KeyHolds(KeyOfOwnerKind(kind),
                          {beta.Owners[i].Name : i \in {j \in 2..Len(beta.Owners) :
                                                            beta.Owners[j].Kind = kind}})
           /\ \A sk \in ProxyServiceKinds, op \in ProxyOperations :
                 KeyHolds(KeyOfPair(sk, op),
                          {beta.Owners[i].Name : i \in {j \in 1..Len(beta.Owners) :
                                                            <<sk, op>> \in PermPairs(beta.Owners[j])}})

(* C8 witness: the owners [{User, alice, Nodes:[List, Update]},            *)
(* {Group, teamA, Nodes:[List]}] downgraded to primary owner {User,        *)
(* alice}, group = teamA, enable-node-listing = alice,teamA and            *)
(* enable-node-update = alice                                              *)
C8_Witness ==
    /\ last = "ConvertFrom"
    /\ outcome = "ok"
    /\ Len(beta.Owners) = 2
    /\ beta.Owners[2].Name = <<"teamA">>
    /\ alpha.Owner = [Name |-> alice, Kind |-> "User"]
    /\ {ownerGroupsAnnotation, enableNodeListingAnnotation, enableNodeUpdateAnnotation}
           \subseteq DOMAIN AnnotationsNow(alpha)
    /\ AnnotationsNow(alpha)[ownerGroupsAnnotation] = <<"teamA">>
    /\ AnnotationsNow(alpha)[enableNodeListingAnnotation] = <<"alice", Comma, "teamA">>
    /\ AnnotationsNow(alpha)[enableNodeUpdateAnnotation] = alice

(* C9: the upgrade of a legacy instance has the instance's primary owner   *)
(* (kind and name) as owners[0], and downgrading the result gives the      *)
(* primary owner back, whatever annotations the instance carries.          *)
C9_PrimaryOwnerIdentity ==
    /\ (mode = "up-down" /\ step >= 1 /\ last = "ConvertTo")
           => /\ Len(beta.Owners) >= 1
              /\ beta.Owners[1].Kind = orig.Owner.Kind
              /\ beta.Owners[1].Name = orig.Owner.Name
    /\ (mode = "up-down" /\ step = 2 /\ outcome = "ok") => alpha.Owner = orig.Owner

(* C9 witness: a legacy instance whose primary owner has no annotated      *)
(* permission and which names other owners in an owner annotation went     *)
(* through upgrade and downgrade                                           *)
C9_Witness ==
    /\ mode = "up-down"
    /\ step = 2
    /\ outcome = "ok"
    /\ alpha.Owner = orig.Owner
    /\ Len(beta.Owners) >= 3
    /\ beta.Owners[1].ProxyOperations = <<>>
    /\ \E i \in 2..Len(beta.Owners) : beta.Owners[i].ProxyOperations # <<>>

(* the scope the annotation asks for: Namespace when it says so, Tenant    *)
(* when it is absent, says Tenant or says anything else                    *)
ScopeAskedFor(annotations) ==
    IF resourceQuotaScopeAnnotation \in DOMAIN annotations
           /\ annotations[resourceQuotaScopeAnnotation] = <<"Namespace">>
    THEN "Namespace" ELSE "Tenant"

(* the scope of an upgraded instance; an instance without resourceQuota    *)
(* has the schema's default scope, Tenant                                  *)
UpgradedScope(obj) ==
    IF obj.ResourceQuota = Nil THEN "Tenant" ELSE obj.ResourceQuota[1].Scope

(* C10 as stated: for any legacy instance the upgraded scope is the one    *)
(* the annotation asks for.                                                *)
C10_ScopeOfAnyInstance ==
    (last = "ConvertTo" /\ outcome = "ok")
        => UpgradedScope(beta) = ScopeAskedFor(AnnotationsBefore(alpha))

(* C10 amended: for a legacy instance with at least one resourceQuota item *)
(* the upgraded resourceQuota has the scope the annotation asks for; an    *)
(* instance without items upgrades to no resourceQuota at all, so the      *)
(* annotation's scope is not carried over.                                 *)
C10_ScopeDefault ==
    (last = "ConvertTo" /\ outcome = "ok")
        => IF alpha.ResourceQuota # <<>>
           THEN /\ beta.ResourceQuota # Nil
                /\ beta.ResourceQuota[1].Scope = ScopeAskedFor(AnnotationsBefore(alpha))
                /\ beta.ResourceQuota[1].Items = alpha.ResourceQuota
           ELSE beta.ResourceQuota = Nil

(* C10 witness: an instance with quota items and the scope annotation      *)
(* "bogus" was upgraded to scope Tenant                                    *)
C10_Witness ==
    /\ last = "ConvertTo"
    /\ outcome = "ok"
    /\ alpha.ResourceQuota # <<>>
    /\ resourceQuotaScopeAnnotation \in DOMAIN AnnotationsBefore(alpha)
    /\ AnnotationsBefore(alpha)[resourceQuotaScopeAnnotation] = <<"bogus">>
    /\ beta.ResourceQuota[1].Scope = "Tenant"

(* the owner lists upgrade may return for the source of the last upgrade *)
PossibleOwners == convertV1Alpha1OwnerToV1Beta1(alpha, AnnotationsBefore(alpha))

(* C11: upgrade is a deterministic function of its input: the owner list   *)
(* an upgrade returned is the only one any execution of upgrade on the     *)
(* same legacy instance can return, in the order of the owners and in the  *)
(* order of each owner's permission entries.                               *)
C11_UpgradeDeterministic ==
    last = "ConvertTo" => \A owners \in PossibleOwners : owners = beta.Owners

(* no element occurs twice in the sequence *)
NoDuplicates(seq) == \A i, j \in 1..Len(seq) : i # j => seq[i] # seq[j]

(* C12: after an upgrade no owner's operation collection of a service kind *)
(* contains an operation twice, also when the owner's name occurs more     *)
(* than once in the comma list of a permission annotation.                 *)
C12_OperationsAreSets ==
    last = "ConvertTo"
        => \A i \in 1..Len(beta.Owners) :
               \A j \in 1..Len(beta.Owners[i].ProxyOperations) :
                   NoDuplicates(beta.Owners[i].ProxyOperations[j].Operations)

(* the annotations without the permission and owner keys whose value is   *)
(* the empty string                                                        *)
WithoutEmptyValues(annotations) ==
    LET empty == {k \in DOMAIN annotations \cap (ProxyAnnotationKeys \cup OwnerAnnotationKeys) :
                     annotations[k] = <<>>}
    IN  [k \in DOMAIN annotations \ empty |-> annotations[k]]

(* C13: a permission key or an owner key whose value is the empty string   *)
(* counts as absent: the owners an upgrade returns are owners it may       *)
(* return for the same instance without those keys, and no owner that      *)
(* comes from an annotation (index >= 1) has the empty name.               *)
C13_EmptyValueIsAbsent ==
    last = "ConvertTo"
        => /\ beta.Owners \in
                  convertV1Alpha1OwnerToV1Beta1(alpha, WithoutEmptyValues(AnnotationsBefore(alpha)))
           /\ \A i \in 2..Len(beta.Owners) : beta.Owners[i].Name # <<>>

(* the names the owners of the downgraded instance contribute to a        *)
(* permission key (every owner holding the pair) or to an owner key (the   *)
(* owners at index >= 1 of the kind)                                       *)
Contributors(key) ==
    IF key \in OwnerAnnotationKeys
    THEN {beta.Owners[i].Name : i \in {j \in 2..Len(beta.Owners) :
                                          beta.Owners[j].Kind = KindOfOwnerKey(key)}}
    ELSE {beta.Owners[i].Name : i \in {j \in 1..Len(beta.Owners) :
              \E sk \in ProxyServiceKinds, op \in ProxyOperations :
                  KeyOfPair(sk, op) = key /\ <<sk, op>> \in PermPairs(beta.Owners[j])}}

(* C14: after a downgrade each of the 12 permission keys and 3 owner keys  *)
(* is present in the legacy annotations exactly when an owner contributes  *)
(* a name to it, whatever annotations the source metadata held, and no     *)
(* such key carries the empty string.                                      *)
C14_KeyPresentIffContributed ==
    (last = "ConvertFrom" /\ outcome = "ok")
        => \A key \in ProxyAnnotationKeys \cup OwnerAnnotationKeys :
               /\ (key \in DOMAIN AnnotationsNow(alpha)) <=> (Contributors(key) # {})
               /\ key \in DOMAIN AnnotationsNow(alpha) => AnnotationsNow(alpha)[key] # <<>>

============================================================================
